---- MODULE Spec2Model ----
(***************************************************************************)
(* A model of the express-template HTTP server: the middleware chain of    *)
(* src/app.ts (helmet, corsConfig, express.json, healthRouter,             *)
(* notFoundHandler, errorHandler), the origin callback of corsConfig, the  *)
(* errorHandler, the health route and the startup banner.                  *)
(*                                                                         *)
(* JavaScript strings that the code takes apart (origins, ALLOWED_ORIGINS) *)
(* are sequences of one-character strings; values that may be undefined    *)
(* are Undefined or Some(v).                                               *)
(***************************************************************************)
EXTENDS Integers, Sequences, FiniteSets

VARIABLES
    env,        \* process.env: NODE_ENV, ALLOWED_ORIGINS, PORT, APP_NAME
    interfaces, \* what os.networkInterfaces() returns on this host
    server,     \* "created" before app.listen, "listening" once bound
    listenCb,   \* TRUE while the callback given to app.listen is queued
    banners,    \* the banners displayServerInfo has printed
    now,        \* the process clock, in ticks since the process started
    hadFailure, \* TRUE once errorHandler has answered some request
    req,        \* the request in flight
    stage,      \* the middleware the request is about to enter
    trace,      \* the middlewares that have run for the request, in order
    cors,       \* what the origin callback decided for the request
    err,        \* the failure passed to next(err), if any
    res,        \* the response of the request
    logs        \* console output written while the request is processed

vars == <<env, interfaces, server, listenCb, banners, now, hadFailure,
          req, stage, trace, cors, err, res, logs>>

-----------------------------------------------------------------------------
(* Bounds *)

MaxOriginLen == 2   \* longest Origin header enumerated
MaxEnvLen == 3      \* longest ALLOWED_ORIGINS value enumerated
MaxIfaces == 2      \* most network interfaces enumerated
MaxNets == 2        \* most addresses per interface enumerated
MaxClock == 1       \* last tick of the process clock

-----------------------------------------------------------------------------
(* JavaScript values *)

Undefined == [defined |-> FALSE]
Some(v) == [defined |-> TRUE, val |-> v]

Chars == {"a", "b", ","}
Strings(n) == UNION {[1..k -> Chars] : k \in 0..n}

\* !x for a string-or-undefined: undefined and "" are falsy
TruthyStr(x) == x.defined /\ x.val # <<>>
\* x || ... for a number-or-undefined: undefined and 0 are falsy
TruthyNum(x) == x.defined /\ x.val # 0

\* String.prototype.split(','): the pieces between commas, in order; the
\* empty string splits into one empty piece
RECURSIVE SplitFrom(_, _, _)
SplitFrom(s, i, cur) ==
    IF i > Len(s) THEN <<cur>>
    ELSE IF s[i] = "," THEN <<cur>> \o SplitFrom(s, i + 1, <<>>)
    ELSE SplitFrom(s, i + 1, Append(cur, s[i]))

split(s) == SplitFrom(s, 1, <<>>)

\* Array.prototype.includes
includes(arr, x) == \E i \in 1..Len(arr) : arr[i] = x

-----------------------------------------------------------------------------
(* corsConfig.ts *)

isDevelopment == env.NODE_ENV # Some("production")

allowedOrigins ==
    IF env.ALLOWED_ORIGINS.defined THEN split(env.ALLOWED_ORIGINS.val) ELSE <<>>

corsError == [message |-> "Not allowed by CORS", stack |-> "Error: Not allowed by CORS at corsConfig",
              status |-> Undefined, statusCode |-> Undefined]

NoDecision == [decision |-> "none", readEnv |-> FALSE]

Allow(readEnv) ==
    [err |-> Undefined, allow |-> TRUE, logs |-> <<>>, readEnv |-> readEnv]

\* a faulty variant: callback(null, false) instead of callback(new Error(...))
DenySilently(origin) ==
    [err |-> Undefined, allow |-> FALSE,
     logs |-> <<[level |-> "warn", text |-> "CORS blocked origin", arg |-> origin.val]>>,
     readEnv |-> TRUE]

Deny(origin) ==
    [err |-> Some(corsError), allow |-> FALSE,
     logs |-> <<[level |-> "warn", text |-> "CORS blocked origin", arg |-> origin.val]>>,
     readEnv |-> TRUE]

\* a faulty variant: startsWith instead of an exact match
originCallbackPrefix(origin) ==
    IF ~TruthyStr(origin) THEN Allow(FALSE)
    ELSE IF isDevelopment THEN Allow(FALSE)
    ELSE IF \E i \in 1..Len(allowedOrigins) :
               /\ Len(allowedOrigins[i]) <= Len(origin.val)
               /\ SubSeq(origin.val, 1, Len(allowedOrigins[i])) = allowedOrigins[i]
         THEN Allow(TRUE)
         ELSE Deny(origin)

\* a faulty variant: the list is checked before the mode
originCallbackListFirst(origin) ==
    IF ~TruthyStr(origin) THEN Allow(FALSE)
    ELSE IF includes(allowedOrigins, origin.val) THEN Allow(TRUE)
    ELSE IF isDevelopment THEN Allow(TRUE)
    ELSE Deny(origin)

\* the origin option of cors({...}): what it passes to callback, what it logs
originCallback(origin) ==
    IF ~TruthyStr(origin) THEN Allow(FALSE)
    ELSE IF isDevelopment THEN Allow(FALSE)
    ELSE IF includes(allowedOrigins, origin.val) THEN Allow(TRUE)
    ELSE Deny(origin)

corsHeaders(method) ==
    {"Access-Control-Allow-Origin", "Access-Control-Allow-Credentials"}
        \cup (IF method = "OPTIONS"
              THEN {"Access-Control-Allow-Methods", "Access-Control-Allow-Headers"}
              ELSE {})

-----------------------------------------------------------------------------
(* errorHandler.ts *)

errorHandler_isDevelopment == env.NODE_ENV # Some("production")

\* a faulty variant: err.status ?? err.statusCode ?? 500
statusCodeKeepsZero(e) ==
    IF e.status.defined THEN e.status.val
    ELSE IF e.statusCode.defined THEN e.statusCode.val
    ELSE 500

\* err.status || err.statusCode || 500
statusCode(e) ==
    IF TruthyNum(e.status) THEN e.status.val
    ELSE IF TruthyNum(e.statusCode) THEN e.statusCode.val
    ELSE 500

\* a faulty variant: the real message in production too
errorBodyLeaksMessage(e) ==
    IF errorHandler_isDevelopment
    THEN [success |-> FALSE, error |-> e.message, stack |-> e.stack]
    ELSE [success |-> FALSE, error |-> e.message]

\* the object given to res.json: the stack key exists in development only
errorBody(e) ==
    IF errorHandler_isDevelopment
    THEN [success |-> FALSE, error |-> e.message, stack |-> e.stack]
    ELSE [success |-> FALSE, error |-> "Internal server error"]

\* a faulty variant: the failure is passed on with next(err), no response written
errorHandlerForwards(e) ==
    [logs |-> <<[level |-> "error", text |-> "Error:", arg |-> e]>>,
     status |-> statusCode(e), body |-> errorBody(e), sent |-> 0, next |-> TRUE]

\* errorHandler(err, _req, res, _next): what it logs, the one response it
\* writes, and that it never calls _next
errorHandler(e) ==
    [logs |-> <<[level |-> "error", text |-> "Error:", arg |-> e]>>,
     status |-> statusCode(e), body |-> errorBody(e), sent |-> 1, next |-> FALSE]

-----------------------------------------------------------------------------
(* routes/health.ts *)

\* Date.prototype.toISOString
toISOString(t) == <<"ISO-8601", t>>

\* process.uptime(): time since the process started, at tick 0
uptime == now

\* a faulty variant: the uptime is computed the wrong way round
healthHandlerNegativeUptime ==
    [status |-> 200,
     body |-> [status |-> "ok", timestamp |-> toISOString(now), uptime |-> 0 - uptime - 1]]

healthHandler ==
    [status |-> 200,
     body |-> [status |-> "ok", timestamp |-> toISOString(now), uptime |-> uptime]]

\* healthRouter.get('/health') mounted at '/api' (GET routes also answer HEAD)
healthRouterMatches(r) == r.path = "/api/health" /\ r.method \in {"GET", "HEAD"}

-----------------------------------------------------------------------------
(* the Not-Found Responder *)

notFoundHandler(r) ==
    [status |-> 404,
     body |-> [error |-> "Route not found", path |-> r.path, method |-> r.method]]

-----------------------------------------------------------------------------
(* utils/serverStartup.ts *)

\* the addresses a host may report
Nets ==
    {[family |-> "IPv4", internal |-> FALSE, address |-> "192.168.1.10"],
     [family |-> "IPv4", internal |-> FALSE, address |-> "10.0.0.5"],
     [family |-> "IPv4", internal |-> TRUE, address |-> "127.0.0.1"],
     [family |-> "IPv6", internal |-> FALSE, address |-> "fe80::1"]}

\* the inner loop: the first address of one interface that is IPv4 and not
\* internal
RECURSIVE ScanNets(_, _)
ScanNets(nets, j) ==
    IF j > Len(nets) THEN Undefined
    ELSE IF nets[j].family = "IPv4" /\ ~nets[j].internal THEN Some(nets[j].address)
    ELSE ScanNets(nets, j + 1)

\* the outer loop over Object.keys(interfaces); interfaces[name] || []
RECURSIVE ScanInterfaces(_, _)
ScanInterfaces(ifs, i) ==
    IF i > Len(ifs) THEN "localhost"
    ELSE LET hit == ScanNets(IF ifs[i].defined THEN ifs[i].val ELSE <<>>, 1)
         IN  IF hit.defined THEN hit.val ELSE ScanInterfaces(ifs, i + 1)

\* a faulty variant: the interfaces are searched from the last one
RECURSIVE ScanInterfacesLast(_, _)
ScanInterfacesLast(ifs, i) ==
    IF i < 1 THEN "localhost"
    ELSE LET hit == ScanNets(IF ifs[i].defined THEN ifs[i].val ELSE <<>>, 1)
         IN  IF hit.defined THEN hit.val ELSE ScanInterfacesLast(ifs, i - 1)

getNetworkAddressLastInterface == ScanInterfacesLast(interfaces, Len(interfaces))

getNetworkAddress == ScanInterfaces(interfaces, 1)

\* const port = process.env.PORT ?? 3000
port == IF env.PORT.defined THEN env.PORT.val ELSE "3000"

\* process.env.APP_NAME || 'Express Server'
appName ==
    IF env.APP_NAME.defined /\ env.APP_NAME.val # "" THEN env.APP_NAME.val
    ELSE "Express Server"

\* the banner displayServerInfo prints
displayServerInfo(p) ==
    [appName |-> appName,
     time |-> now,
     localUrl |-> <<"http://", "localhost", ":", p>>,
     networkUrl |-> <<"http://", getNetworkAddress, ":", p>>]

-----------------------------------------------------------------------------
(* app.ts: the middleware chain *)

\* a faulty variant: express.json() registered before corsConfig
ChainJsonBeforeCors ==
    <<"helmet", "express.json", "corsConfig", "healthRouter", "notFoundHandler",
      "errorHandler">>

\* the app.use(...) calls, in registration order
Chain ==
    <<"helmet", "corsConfig", "express.json", "healthRouter", "notFoundHandler",
      "errorHandler">>

\* the middlewares that take (err, req, res, next)
ErrorMiddlewares == {"errorHandler"}

\* the first middleware at or after position i that handles failures
\* (wantError) or requests (~wantError); Express's own final handler when the
\* chain has none left
RECURSIVE FirstFrom(_, _)
FirstFrom(i, wantError) ==
    IF i > Len(Chain) THEN "finalhandler"
    ELSE IF (Chain[i] \in ErrorMiddlewares) = wantError THEN Chain[i]
    ELSE FirstFrom(i + 1, wantError)

IndexOf(s) == CHOOSE i \in 1..Len(Chain) : Chain[i] = s

\* where next() and next(err) called from middleware s lead
AfterNext(s) == FirstFrom(IndexOf(s) + 1, FALSE)
AfterNextErr(s) == FirstFrom(IndexOf(s) + 1, TRUE)

NoReq == [origin |-> Undefined, method |-> "GET", path |-> "/", body |-> "none"]
NoRes == [status |-> 200, body |-> Undefined, headers |-> {}, sent |-> 0]

helmetHeaders ==
    {"Content-Security-Policy", "X-DNS-Prefetch-Control", "X-Frame-Options",
     "Strict-Transport-Security"}

\* the failure express.json() forwards for a body that is not JSON
jsonError ==
    [message |-> "Unexpected token in JSON", stack |-> "SyntaxError: Unexpected token at parse",
     status |-> Some(400), statusCode |-> Some(400)]

Requests ==
    [origin : {Undefined, Some(<<>>), Some(<<"a">>), Some(<<"b">>)},
     method : {"GET", "POST", "OPTIONS"},
     path : {"/api/health", "/api/unknown"},
     body : {"none", "json", "malformed"}]

reqVars == <<req, stage, trace, cors, err, res, logs>>
procVars == <<env, interfaces, server, listenCb, banners>>

\* app.listen(port, callback): the server is bound and the callback queued
Listen ==
    /\ server = "created"
    /\ server' = "listening"
    /\ listenCb' = TRUE
    /\ UNCHANGED <<env, interfaces, banners, now, hadFailure>>
    /\ UNCHANGED reqVars

\* a faulty variant: the callback stays registered and runs again
ListenCallbackRepeats ==
    /\ server = "listening"
    /\ listenCb
    /\ Len(banners) < 3
    /\ banners' = Append(banners, displayServerInfo(port))
    /\ UNCHANGED <<env, interfaces, server, listenCb, now, hadFailure>>
    /\ UNCHANGED reqVars

\* the 'listening' callback: () => { displayServerInfo(port) }
ListenCallback ==
    /\ server = "listening"
    /\ listenCb
    /\ listenCb' = FALSE
    /\ banners' = Append(banners, displayServerInfo(port))
    /\ UNCHANGED <<env, interfaces, server, now, hadFailure>>
    /\ UNCHANGED reqVars

\* the process clock advances
Tick ==
    /\ now < MaxClock
    /\ now' = now + 1
    /\ UNCHANGED <<hadFailure>>
    /\ UNCHANGED procVars
    /\ UNCHANGED reqVars

\* a request arrives; the 'listening' callback, queued with nextTick, has run
\* before any connection is handled
AcceptRequest ==
    /\ server = "listening"
    /\ ~listenCb
    /\ stage \in {"idle", "done"}
    /\ \E r \in Requests : req' = r
    /\ stage' = FirstFrom(1, FALSE)
    /\ trace' = <<>>
    /\ cors' = NoDecision
    /\ err' = Undefined
    /\ res' = NoRes
    /\ logs' = <<>>
    /\ UNCHANGED <<now, hadFailure>>
    /\ UNCHANGED procVars

\* app.use(helmet())
Helmet ==
    /\ stage = "helmet"
    /\ trace' = Append(trace, "helmet")
    /\ res' = [res EXCEPT !.headers = @ \cup helmetHeaders]
    /\ stage' = AfterNext("helmet")
    /\ UNCHANGED <<req, cors, err, logs, now, hadFailure>>
    /\ UNCHANGED procVars

\* app.use(corsConfig): the origin callback decides; a failure goes to
\* next(err), a preflight is answered 204, anything else goes on
CorsConfig ==
    /\ stage = "corsConfig"
    /\ LET r == originCallback(req.origin)
       IN  /\ trace' = Append(trace, "corsConfig")
           /\ logs' = logs \o r.logs
           /\ cors' = [decision |-> IF r.allow THEN "allow" ELSE "deny",
                       readEnv |-> r.readEnv]
           /\ err' = r.err
           /\ IF r.err.defined
              THEN /\ stage' = AfterNextErr("corsConfig")
                   /\ res' = res
              ELSE IF req.method = "OPTIONS"
              THEN /\ stage' = "done"
                   /\ res' = [res EXCEPT !.headers = @ \cup corsHeaders(req.method),
                                         !.status = 204,
                                         !.sent = @ + 1]
              ELSE /\ stage' = AfterNext("corsConfig")
                   /\ res' = [res EXCEPT !.headers = @ \cup corsHeaders(req.method)]
    /\ UNCHANGED <<req, now, hadFailure>>
    /\ UNCHANGED procVars

\* app.use(express.json())
ExpressJson ==
    /\ stage = "express.json"
    /\ trace' = Append(trace, "express.json")
    /\ IF req.body = "malformed"
       THEN /\ err' = Some(jsonError)
            /\ stage' = AfterNextErr("express.json")
       ELSE /\ err' = err
            /\ stage' = AfterNext("express.json")
    /\ UNCHANGED <<req, cors, res, logs, now, hadFailure>>
    /\ UNCHANGED procVars

\* app.use('/api', healthRouter)
HealthRouter ==
    /\ stage = "healthRouter"
    /\ trace' = Append(trace, "healthRouter")
    /\ IF healthRouterMatches(req)
       THEN /\ res' = [res EXCEPT !.status = healthHandler.status,
                                  !.body = Some(healthHandler.body),
                                  !.sent = @ + 1]
            /\ stage' = "done"
       ELSE /\ res' = res
            /\ stage' = AfterNext("healthRouter")
    /\ UNCHANGED <<req, cors, err, logs, now, hadFailure>>
    /\ UNCHANGED procVars

\* app.use(notFoundHandler)
NotFoundHandler ==
    /\ stage = "notFoundHandler"
    /\ trace' = Append(trace, "notFoundHandler")
    /\ res' = [res EXCEPT !.status = notFoundHandler(req).status,
                          !.body = Some(notFoundHandler(req).body),
                          !.sent = @ + 1]
    /\ stage' = "done"
    /\ UNCHANGED <<req, cors, err, logs, now, hadFailure>>
    /\ UNCHANGED procVars

\* app.use(errorHandler)
ErrorHandler ==
    /\ stage = "errorHandler"
    /\ LET h == errorHandler(err.val)
       IN  /\ trace' = Append(trace, "errorHandler")
           /\ logs' = logs \o h.logs
           /\ res' = [res EXCEPT !.status = h.status,
                                 !.body = Some(h.body),
                                 !.sent = @ + h.sent]
           /\ stage' = IF h.next THEN AfterNextErr("errorHandler") ELSE "done"
    /\ hadFailure' = TRUE
    /\ UNCHANGED <<req, cors, err, now>>
    /\ UNCHANGED procVars

-----------------------------------------------------------------------------
(* The server: one process, from launch on *)

Hosts ==
    {<<>>,
     <<Some(<<[family |-> "IPv4", internal |-> TRUE, address |-> "127.0.0.1"]>>),
       Some(<<[family |-> "IPv6", internal |-> FALSE, address |-> "fe80::1"],
              [family |-> "IPv4", internal |-> FALSE, address |-> "192.168.1.10"]>>)>>}

Init ==
    /\ env \in [NODE_ENV : {Undefined, Some("development"), Some("production")},
                ALLOWED_ORIGINS : {Undefined, Some(<<"a">>)},
                PORT : {Undefined, Some("8080")},
                APP_NAME : {Undefined, Some("My API")}]
    /\ interfaces \in Hosts
    /\ server = "created"
    /\ listenCb = FALSE
    /\ banners = <<>>
    /\ now = 0
    /\ hadFailure = FALSE
    /\ req = NoReq
    /\ stage = "idle"
    /\ trace = <<>>
    /\ cors = NoDecision
    /\ err = Undefined
    /\ res = NoRes
    /\ logs = <<>>

Next ==
    \/ Listen
    \/ ListenCallback
    \/ Tick
    \/ AcceptRequest
    \/ Helmet
    \/ CorsConfig
    \/ ExpressJson
    \/ HealthRouter
    \/ NotFoundHandler
    \/ ErrorHandler

Spec == Init /\ [][Next]_vars

-----------------------------------------------------------------------------
(* The origin callback over all short origins and ALLOWED_ORIGINS values:   *)
(* a listening server with one request that helmet has just passed on       *)

InitCors ==
    /\ env \in [NODE_ENV : {Undefined, Some("development"), Some("production")},
                ALLOWED_ORIGINS : {Undefined} \cup {Some(s) : s \in Strings(MaxEnvLen)},
                PORT : {Undefined},
                APP_NAME : {Undefined}]
    /\ interfaces = <<>>
    /\ server = "listening"
    /\ listenCb = FALSE
    /\ now = 0
    /\ banners = <<displayServerInfo(port)>>
    /\ hadFailure = FALSE
    /\ req \in [origin : {Undefined} \cup {Some(s) : s \in Strings(MaxOriginLen)},
                method : {"GET", "OPTIONS"},
                path : {"/api/health"},
                body : {"none"}]
    /\ stage = "corsConfig"
    /\ trace = <<"helmet">>
    /\ cors = NoDecision
    /\ err = Undefined
    /\ res = [NoRes EXCEPT !.headers = helmetHeaders]
    /\ logs = <<>>

SpecCors == InitCors /\ [][CorsConfig]_vars

-----------------------------------------------------------------------------
(* errorHandler over failures of every shape: a listening server with one   *)
(* request whose failure has just been passed to next(err)                  *)

OptStatus == {Undefined, Some(0), Some(400), Some(404), Some(503)}

Failures ==
    [message : {"X", "Not allowed by CORS", "connect ECONNREFUSED db:5432"},
     stack : {"Error at handler (users.ts:12)", "Error at Socket.connect"},
     status : OptStatus,
     statusCode : OptStatus]

InitErr ==
    /\ env \in [NODE_ENV : {Undefined, Some("development"), Some("production")},
                ALLOWED_ORIGINS : {Undefined},
                PORT : {Undefined},
                APP_NAME : {Undefined}]
    /\ interfaces = <<>>
    /\ server = "listening"
    /\ listenCb = FALSE
    /\ now = 0
    /\ banners = <<displayServerInfo(port)>>
    /\ hadFailure = FALSE
    /\ req = [NoReq EXCEPT !.path = "/api/users"]
    /\ stage = "errorHandler"
    /\ trace = <<"helmet", "corsConfig", "express.json">>
    /\ cors = [decision |-> "allow", readEnv |-> FALSE]
    /\ err \in {Some(e) : e \in Failures}
    /\ res = [NoRes EXCEPT !.headers = helmetHeaders \cup corsHeaders("GET")]
    /\ logs = <<>>

SpecErr == InitErr /\ [][ErrorHandler]_vars

-----------------------------------------------------------------------------
(* getNetworkAddress over all small hosts: a server that has just been      *)
(* bound, its 'listening' callback queued                                   *)

NetLists(n) == UNION {[1..k -> Nets] : k \in 0..n}

\* interfaces in Object.keys order, each with its address list (or undefined)
HostsUpTo(m, n) ==
    UNION {[1..k -> {Undefined} \cup {Some(l) : l \in NetLists(n)}] : k \in 0..m}

InitNet ==
    /\ env \in [NODE_ENV : {Undefined},
                ALLOWED_ORIGINS : {Undefined},
                PORT : {Undefined},
                APP_NAME : {Undefined}]
    /\ interfaces \in HostsUpTo(MaxIfaces, MaxNets)
    /\ server = "listening"
    /\ listenCb = TRUE
    /\ now = 0
    /\ banners = <<>>
    /\ hadFailure = FALSE
    /\ req = NoReq
    /\ stage = "idle"
    /\ trace = <<>>
    /\ cors = NoDecision
    /\ err = Undefined
    /\ res = NoRes
    /\ logs = <<>>

SpecNet == InitNet /\ [][ListenCallback]_vars

-----------------------------------------------------------------------------
(* Properties of the Origin Policy Evaluator (under SpecCors) *)

Production == env.NODE_ENV = Some("production")

\* the Allowed Origins Set: the maximal comma-free pieces of ALLOWED_ORIGINS,
\* none when the variable is unset
AllowedOriginsSet ==
    IF ~env.ALLOWED_ORIGINS.defined THEN {}
    ELSE LET s == env.ALLOWED_ORIGINS.val
             Piece(i, j) ==
                 /\ i <= j + 1
                 /\ i = 1 \/ s[i - 1] = ","
                 /\ j = Len(s) \/ s[j + 1] = ","
                 /\ \A k \in i..j : s[k] # ","
         IN  {[k \in 1..(p[2] - p[1] + 1) |-> s[p[1] + k - 1]] :
                 p \in {q \in (1..(Len(s) + 1)) \X (0..Len(s)) : Piece(q[1], q[2])}}

Evaluated == cors.decision # "none"

\* C1 as stated: in production, every request that carries an Origin header
\* is allowed if and only if that origin is in the Allowed Origins Set
C1_AllowIffMember_AnyOrigin ==
    (Evaluated /\ Production /\ req.origin.defined)
        => (cors.decision = "allow" <=> req.origin.val \in AllowedOriginsSet)

\* C1 amended: in production, every request that carries a non-empty Origin is
\* allowed if and only if that origin is in the Allowed Origins Set, and is
\* denied otherwise
C1_AllowIffMember ==
    (Evaluated /\ Production /\ req.origin.defined /\ req.origin.val # <<>>)
        => /\ cors.decision = "allow" <=> req.origin.val \in AllowedOriginsSet
           /\ cors.decision = "deny" <=> req.origin.val \notin AllowedOriginsSet

\* production, a list of two entries, the origin the second of them: allowed
C1_Witness ==
    /\ Evaluated
    /\ Production
    /\ env.ALLOWED_ORIGINS = Some(<<"a", ",", "b">>)
    /\ req.origin = Some(<<"b">>)
    /\ cors.decision = "allow"

\* C2: a request without an Origin is allowed in both modes, and in
\* development every request is allowed; ALLOWED_ORIGINS is not read and no
\* failure is signalled or logged
C2_NoOriginOrDevelopmentAllows ==
    (Evaluated /\ (~req.origin.defined \/ ~Production))
        => /\ cors.decision = "allow"
           /\ ~cors.readEnv
           /\ err = Undefined
           /\ logs = <<>>
           /\ stage # "errorHandler"

\* development, an origin that is on the list, allowed without reading it
C2_Witness ==
    /\ Evaluated
    /\ env.NODE_ENV = Some("development")
    /\ env.ALLOWED_ORIGINS = Some(<<"a">>)
    /\ req.origin = Some(<<"a">>)
    /\ cors.decision = "allow"
    /\ ~cors.readEnv

-----------------------------------------------------------------------------
(* Properties of the Error Responder (under SpecErr) *)

Last(q) == q[Len(q)]
Ran(m) == \E i \in 1..Len(trace) : trace[i] = m
Answered == stage = "done"
Handled == Answered /\ Len(trace) > 0 /\ Last(trace) = "errorHandler"

C5_BodyByMode ==
    Handled =>
        /\ res.body.defined
        /\ Production =>
              /\ res.body.val = [success |-> FALSE, error |-> "Internal server error"]
              /\ "stack" \notin DOMAIN res.body.val
        /\ ~Production =>
              res.body.val = [success |-> FALSE, error |-> err.val.message,
                              stack |-> err.val.stack]

\* production, a failure whose message names an internal host
C5_Witness ==
    /\ Handled
    /\ Production
    /\ err.val.message = "connect ECONNREFUSED db:5432"
    /\ res.body = Some([success |-> FALSE, error |-> "Internal server error"])

-----------------------------------------------------------------------------
(* Properties of the request chain (under Spec) *)

Logged(level, arg) ==
    \E i \in 1..Len(logs) : logs[i].level = level /\ logs[i].arg = arg

IsErrorEnvelope(b) ==
    /\ b.defined
    /\ {"success", "error"} \subseteq DOMAIN b.val
    /\ b.val.success = FALSE

\* C3: a denied request is logged with its origin, its failure goes to the
\* Error Responder, which answers it with the Error Envelope and 500 (the
\* failure carries no status); body parsing, the routes and the Not-Found
\* Responder never see it
C3_DenialGoesToErrorResponder ==
    cors.decision = "deny" =>
        /\ Logged("warn", req.origin.val)
        /\ err.defined /\ err.val.message = "Not allowed by CORS"
        /\ stage \in {"errorHandler", "done"}
        /\ ~Ran("express.json") /\ ~Ran("healthRouter") /\ ~Ran("notFoundHandler")
        /\ Answered =>
              /\ Last(trace) = "errorHandler"
              /\ res.sent = 1
              /\ res.status = 500
              /\ IsErrorEnvelope(res.body)

C3_Witness ==
    /\ cors.decision = "deny"
    /\ Answered
    /\ req.path = "/api/health"
    /\ res.status = 500

IsHealthEnvelope(b) ==
    /\ b.defined
    /\ DOMAIN b.val = {"status", "timestamp", "uptime"}
    /\ b.val.status = "ok"
    /\ b.val.timestamp \in {toISOString(t) : t \in 0..now}
    /\ b.val.uptime >= 0

HealthRequest == req.method = "GET" /\ req.path = "/api/health"

\* C6 as stated: every GET /api/health is answered 200 with the Health
\* Envelope, in either mode and for any origin
C6_HealthAlwaysOk_AnyRequest ==
    (Answered /\ HealthRequest) => (res.status = 200 /\ IsHealthEnvelope(res.body))

\* C6 amended: every GET /api/health that the Origin Policy Evaluator allows
\* and whose body express.json() accepts is answered 200 with the Health
\* Envelope, written once, with no failure; the others never reach the route
C6_HealthOkWhenDispatched ==
    /\ (Answered /\ HealthRequest /\ cors.decision = "allow" /\ req.body # "malformed")
           => /\ res.status = 200
              /\ IsHealthEnvelope(res.body)
              /\ res.sent = 1
              /\ err = Undefined
              /\ Last(trace) = "healthRouter"
    /\ (Answered /\ HealthRequest /\ Ran("healthRouter"))
           => (res.status = 200 /\ IsHealthEnvelope(res.body))
    /\ (Answered /\ HealthRequest /\ ~Ran("healthRouter")) => err.defined

\* production, an allowed origin, after the clock has advanced
C6_Witness ==
    /\ Answered
    /\ HealthRequest
    /\ Production
    /\ req.origin = Some(<<"a">>)
    /\ res.status = 200
    /\ res.body.val.uptime > 0

\* C7: a failure goes straight to the Error Responder, which logs it, writes
\* exactly one JSON response and passes it no further; the server stays up
\* and accepts the next request
C7_FailureAnsweredOnce ==
    /\ res.sent <= 1
    /\ stage # "finalhandler"
    /\ err.defined => stage \in {"errorHandler", "done"}
    /\ (err.defined /\ Answered) =>
          /\ Last(trace) = "errorHandler"
          /\ Logged("error", err.val)
          /\ res.sent = 1
          /\ IsErrorEnvelope(res.body)
    /\ Answered => res.sent = 1
    /\ hadFailure => (server = "listening" /\ (Answered => ENABLED AcceptRequest))

\* after a failure was answered, a later request is served normally
C7_Witness ==
    /\ hadFailure
    /\ Answered
    /\ ~err.defined
    /\ res.status = 200
    /\ res.sent = 1

Rank(m) ==
    CASE m = "helmet" -> 1
      [] m = "corsConfig" -> 2
      [] m = "express.json" -> 3
      [] m = "healthRouter" -> 4
      [] m = "notFoundHandler" -> 5
      [] m = "errorHandler" -> 6
      [] OTHER -> 0

\* C8: the stages run in the order helmet, corsConfig, express.json, route
\* dispatch, each only after all the earlier ones; the Not-Found Responder
\* only after a dispatch that matched no route, the Error Responder only
\* after a failure of an earlier stage
C8_StageOrder ==
    /\ \A i \in 1..Len(trace) :
          /\ Rank(trace[i]) > 0
          /\ Rank(trace[i]) <= 5 => Rank(trace[i]) = i
          /\ trace[i] = "notFoundHandler" => ~healthRouterMatches(req)
          /\ trace[i] = "errorHandler" =>
                /\ i > 1
                /\ i = Len(trace)
                /\ err.defined
                /\ \/ trace[i - 1] = "corsConfig" /\ cors.decision = "deny"
                   \/ trace[i - 1] = "express.json" /\ req.body = "malformed"
    /\ stage \notin {"idle", "done"} => Rank(stage) > Len(trace)

\* an unmatched request that went through all five stages
C8_Witness ==
    /\ Answered
    /\ trace = <<"helmet", "corsConfig", "express.json", "healthRouter",
                 "notFoundHandler">>
    /\ res.status = 404

\* C9 as stated: the banner is printed before the server begins accepting
\* connections
C9_BannerBeforeListening ==
    server = "listening" => Len(banners) = 1

\* C9 amended: displayServerInfo runs exactly once, in the 'listening'
\* callback: after the server has been bound, before any request is handled,
\* and never again whatever requests follow
C9_BannerOnce ==
    /\ Len(banners) <= 1
    /\ Len(banners) = 1 <=> (server = "listening" /\ ~listenCb)
    /\ (stage # "idle" \/ hadFailure) => Len(banners) = 1

\* requests, one of them failed, have been answered since the banner
C9_Witness ==
    /\ Len(banners) = 1
    /\ hadFailure
    /\ Answered
    /\ now > banners[1].time

-----------------------------------------------------------------------------
(* Properties of the Startup Reporter's address selection (under SpecNet) *)

NetsOf(i) == IF interfaces[i].defined THEN interfaces[i].val ELSE <<>>

\* the positions (interface, address) of the external IPv4 addresses
Candidates ==
    UNION {{<<i, j>> : j \in {k \in 1..Len(NetsOf(i)) :
                                 /\ NetsOf(i)[k].family = "IPv4"
                                 /\ ~NetsOf(i)[k].internal}} :
              i \in 1..Len(interfaces)}

Before(p, q) == p[1] < q[1] \/ (p[1] = q[1] /\ p[2] <= q[2])

FirstCandidateAddress ==
    IF Candidates = {} THEN "localhost"
    ELSE LET p == CHOOSE c \in Candidates : \A d \in Candidates : Before(c, d)
         IN  NetsOf(p[1])[p[2]].address

\* C10: the banner's network URL is built from the first external IPv4
\* address in enumeration order (interfaces, then each interface's addresses),
\* or from "localhost" when there is none, be it on a host without interfaces
C10_FirstExternalIPv4 ==
    Len(banners) = 1 =>
        /\ banners[1].networkUrl =
              <<"http://", FirstCandidateAddress, ":",
                IF env.PORT.defined THEN env.PORT.val ELSE "3000">>
        /\ Candidates = {} => banners[1].networkUrl[2] = "localhost"

\* two interfaces with one external IPv4 address each, the first one's behind
\* a loopback address: the first interface's address is the one printed
C10_Witness ==
    /\ Len(banners) = 1
    /\ Len(interfaces) = 2
    /\ interfaces[1] = Some(<<[family |-> "IPv4", internal |-> TRUE, address |-> "127.0.0.1"],
                              [family |-> "IPv4", internal |-> FALSE, address |-> "10.0.0.5"]>>)
    /\ interfaces[2] = Some(<<[family |-> "IPv4", internal |-> FALSE,
                               address |-> "192.168.1.10"]>>)
    /\ banners[1].networkUrl = <<"http://", "10.0.0.5", ":", "3000">>

====
